---- MODULE Spec2Model ----
(***************************************************************************)
(* RetroBox control plane: the WebSocket session registry and message      *)
(* router (server.ts of the repository, with the native import) and the    *)
(* native RetroArch orchestrator (native.ts).                               *)
(*                                                                         *)
(* Identifiers are small integers: connections 1..NumConns, screen ids     *)
(* 1..NumScreens, controller ids 1..NumSlotCtrlIds; 0 stands for a null or *)
(* missing id.  A JS Map is a function whose DOMAIN is its key set; its    *)
(* iteration order is taken to be increasing key order.                    *)
(***************************************************************************)
EXTENDS Integers, Sequences, FiniteSets, TLC

\* ---------------------------------------------------------------- bounds
NumConns == 3
NumScreens == 2
NumCtrlIds == 2
NumSlotCtrlIds == 6
MaxRequested == 1
MaxLaunches == 3

\* --------------------------------------------------- program constants
\* for (let i = 0; i < 4; i++) / requestedPlayerNum < 4
MaxPlayers == 4

NoId == 0
NoReq == -1

Conns == 1..NumConns
ScreenIds == 1..NumScreens
CtrlIds == 1..NumCtrlIds
SlotCtrlIds == 1..NumSlotCtrlIds
\* requestedPlayerNum: absent or not a number (NoReq), a slot, or a number
\* outside 0..3 (MaxPlayers)
RequestValues == {NoReq} \cup (0..MaxRequested) \cup {MaxPlayers}
LaunchIds == 1..MaxLaunches
\* sockets one WebSocketManager creates (new WebSocket(...)), in order of creation
MaxSockets == 3
SocketIds == 1..MaxSockets
\* msg.playerNum / msg.params.player as a client may supply them
SuppliedValues == {NoReq, MaxPlayers - 1}

VARIABLES
  screens,        \* Map screenId -> ws
  controllers,    \* Map controllerId -> [ws, screenId, playerNum]
  wsData,         \* per connection: ws.data = [id, type, screenId]
  connState,      \* per connection: "open", "closing" (close() called, event pending), "closed"
  sent,           \* the ws.send calls of the last handler, in order
  state,          \* native.ts: state
  cageProcess,    \* native.ts: cageProcess (launch id of the handle, 0 = null)
  currentCore,    \* native.ts: currentCore ("" = null)
  currentRom,     \* native.ts: currentRom ("" = null)
  exitCallback,   \* native.ts: exitCallback (launch id whose onExit it is, 0 = null)
  extractedDir,   \* native.ts: extractedDir (launch id of the directory, 0 = null)
  scratch,        \* directories present under EXTRACT_DIR (launch ids)
  kioskOverride,  \* the drop-in override.conf is installed
  kioskActive,    \* kiosk.service is running
  lpc,            \* per launch: where the launch and its process are
  lcaller,        \* per launch: the connection that asked for it (0 = HTTP API)
  calls,          \* per launch: how often its onExit callback was invoked
  result,         \* what the last launchNative / quitNative call returned
  released,       \* history: per controller id, the [screenId, playerNum] it held when
                  \* its session was destroyed, until it re-registers or another
                  \* controller is assigned that slot on that screen
  managerWs,      \* common.js: WebSocketManager.ws (socket id, 0 = null)
  readyState,     \* per client socket: "unused" (not yet created), "connecting",
                  \* "open", "closing", "closed"
  heartbeatInterval,  \* common.js: WebSocketManager.heartbeatInterval is set
  reconnectTimers,    \* pending setTimeout(() => this.connect(), RECONNECT_DELAY)
  clientSent,     \* the socket the last client step sent a heartbeat on (0 = none)
  requested,      \* history: per client socket, disconnect() called close() on it
  disconnected    \* history: disconnect() was called and the application has not
                  \* called connect() since

vars == <<screens, controllers, wsData, connState, sent, state, cageProcess,
          currentCore, currentRom, exitCallback, extractedDir, scratch,
          kioskOverride, kioskActive, lpc, lcaller, calls, result, released,
          managerWs, readyState, heartbeatInterval, reconnectTimers, clientSent,
          requested, disconnected>>

routerVars == <<screens, controllers, wsData, connState, released>>
nativeVars == <<state, cageProcess, currentCore, currentRom, exitCallback,
                extractedDir, scratch, kioskOverride, kioskActive, lpc, lcaller, calls,
                result>>
clientVars == <<managerWs, readyState, heartbeatInterval, reconnectTimers,
                clientSent, requested, disconnected>>

\* ------------------------------------------------------------- helpers
Min(S) == CHOOSE x \in S : \A y \in S : x <= y

RECURSIVE SetToSeq(_)
SetToSeq(S) == IF S = {} THEN <<>> ELSE <<Min(S)>> \o SetToSeq(S \ {Min(S)})

MapSet(f, k, v) == [x \in DOMAIN f \cup {k} |-> IF x = k THEN v ELSE f[x]]
MapDelete(f, k) == [x \in DOMAIN f \ {k} |-> f[x]]
EmptyMap == [x \in {} |-> 0]

\* One ws.send: the target connection and the fields of the JSON message.
Msg(to, type, id, num, players, text) ==
  [to |-> to, type |-> type, id |-> id, num |-> num, players |-> players, text |-> text]

\* Controller ids of a screen, in Map iteration order.
ControllersOf(ctl, screenId) ==
  SetToSeq({k \in DOMAIN ctl : ctl[k].screenId = screenId})

\* ----------------------------------------------- registry: pure helpers
\* A faulty variant of getNextPlayerNumber: the number of controllers on the
\* screen, whatever slots they hold.
getNextPlayerNumberCounts(ctl, screenId) ==
  Cardinality({x \in DOMAIN ctl : ctl[x].screenId = screenId})

getNextPlayerNumber(ctl, screenId) ==
  LET usedNumbers == {ctl[k].playerNum : k \in {x \in DOMAIN ctl : ctl[x].screenId = screenId}}
      free == {i \in 0..(MaxPlayers - 1) : i \notin usedNumbers}
  IN  IF free # {} THEN Min(free) ELSE Cardinality(usedNumbers)

\* A faulty variant of broadcastPlayerList: the list is the one from before
\* the last session of the screen was added.
broadcastPlayerListStale(ctl, screenId) ==
  LET ids == ControllersOf(ctl, screenId)
      players == [i \in 1..(Len(ids) - 1) |-> ctl[ids[i]].playerNum]
  IN  [i \in 1..Len(ids) |-> Msg(ctl[ids[i]].ws, "playerList", NoId, NoReq, players, "")]

broadcastPlayerList(ctl, screenId) ==
  LET ids == ControllersOf(ctl, screenId)
      players == [i \in 1..Len(ids) |-> ctl[ids[i]].playerNum]
  IN  [i \in 1..Len(ids) |-> Msg(ctl[ids[i]].ws, "playerList", NoId, NoReq, players, "")]

\* A faulty variant of slotTaken: a held slot is never noticed.
slotTakenNever(ctl, controllerId, screenId, requestedPlayerNum) == FALSE

\* A faulty variant of slotTaken: the requester's own session counts as a holder.
slotTakenIncludingSelf(ctl, controllerId, screenId, requestedPlayerNum) ==
  \E k \in DOMAIN ctl :
     /\ ctl[k].screenId = screenId
     /\ ctl[k].playerNum = requestedPlayerNum

\* Some controller other than controllerId holds the requested slot on the screen.
slotTaken(ctl, controllerId, screenId, requestedPlayerNum) ==
  \E k \in DOMAIN ctl :
     /\ ctl[k].screenId = screenId
     /\ ctl[k].playerNum = requestedPlayerNum
     /\ k # controllerId

\* A requested slot is honoured when it is a number in 0..3.
validRequest(requestedPlayerNum) ==
  requestedPlayerNum >= 0 /\ requestedPlayerNum < MaxPlayers

\* The slot an accepted register-controller assigns.
assignPlayerNum(ctl, controllerId, screenId, requestedPlayerNum) ==
  IF validRequest(requestedPlayerNum)
    THEN requestedPlayerNum
    ELSE IF controllerId \in DOMAIN ctl /\ ctl[controllerId].screenId = screenId
           THEN ctl[controllerId].playerNum
           ELSE getNextPlayerNumber(ctl, screenId)

\* A faulty variant of nativeRunning: only a running process counts.
nativeRunningOnlyRunning == state = "running"

\* native.getNativeStatus().state !== 'idle'
nativeRunning == state # "idle"

\* A faulty variant of closeHandler: a closing screen notifies the
\* controllers of every screen.
closeHandlerNotifiesAll(ws, scr, ctl) ==
  LET d == wsData[ws] IN
  IF d.type = "screen" /\ d.id # NoId
    THEN LET ids == SetToSeq(DOMAIN ctl) IN
         [screens |-> MapDelete(scr, d.id),
          controllers |-> ctl,
          out |-> [i \in 1..Len(ids) |->
                     Msg(ctl[ids[i]].ws, "screen-disconnected", NoId, NoReq, <<>>, "")]]
    ELSE IF d.type = "controller" /\ d.id # NoId /\ d.id \in DOMAIN ctl
      THEN LET screenId == ctl[d.id].screenId
               rest == MapDelete(ctl, d.id)
           IN  [screens |-> scr,
                controllers |-> rest,
                out |-> (IF screenId \in DOMAIN scr
                           THEN <<Msg(scr[screenId], "controller-disconnected",
                                      d.id, ctl[d.id].playerNum, <<>>, "")>>
                           ELSE <<>>)
                        \o broadcastPlayerList(rest, screenId)]
      ELSE [screens |-> scr, controllers |-> ctl, out |-> <<>>]

\* websocket.close(ws): what the close handler does to the registry and sends.
closeHandler(ws, scr, ctl) ==
  LET d == wsData[ws] IN
  IF d.type = "screen" /\ d.id # NoId
    THEN LET ids == ControllersOf(ctl, d.id) IN
         [screens |-> MapDelete(scr, d.id),
          controllers |-> ctl,
          out |-> [i \in 1..Len(ids) |->
                     Msg(ctl[ids[i]].ws, "screen-disconnected", NoId, NoReq, <<>>, "")]]
    ELSE IF d.type = "controller" /\ d.id # NoId /\ d.id \in DOMAIN ctl
      THEN LET screenId == ctl[d.id].screenId
               rest == MapDelete(ctl, d.id)
           IN  [screens |-> scr,
                controllers |-> rest,
                out |-> (IF screenId \in DOMAIN scr
                           THEN <<Msg(scr[screenId], "controller-disconnected",
                                      d.id, ctl[d.id].playerNum, <<>>, "")>>
                           ELSE <<>>)
                        \o broadcastPlayerList(rest, screenId)]
      ELSE [screens |-> scr, controllers |-> ctl, out |-> <<>>]

NoSlot == [screenId |-> NoId, playerNum |-> NoReq]

\* released after the close handler of ws ran on controllers ctl.
releasedAfterClose(ws, ctl, rel) ==
  LET d == wsData[ws] IN
  IF d.type = "controller" /\ d.id # NoId /\ d.id \in DOMAIN ctl
    THEN [rel EXCEPT ![d.id] = [screenId |-> ctl[d.id].screenId,
                                playerNum |-> ctl[d.id].playerNum]]
    ELSE rel

\* released after controllerId was assigned playerNum on screenId.
releasedAfterAssign(controllerId, screenId, playerNum, rel) ==
  [k \in DOMAIN rel |->
     IF k = controllerId \/ rel[k] = [screenId |-> screenId, playerNum |-> playerNum]
       THEN NoSlot ELSE rel[k]]

\* A faulty variant of closesExisting: the replaced connection is left open.
closesExistingNever(existing, ws) == FALSE

\* if (existing && existing !== ws) existing.close(), which acts on a
\* connection that is still open.
closesExisting(existing, ws) ==
  existing # NoId /\ existing # ws /\ connState[existing] = "open"

\* The 'error' event of a failed spawn is emitted on the next tick after
\* spawn() returned, ahead of every later message, request or process event:
\* while it is pending no other handler runs.
errorEventPending == \E l \in LaunchIds : lpc[l] = "spawnfail"

\* ------------------------------------------------------ router actions
\* register-screen with a missing or empty screenId.
RegisterScreenMissing(ws) ==
  /\ ~errorEventPending
  /\ connState[ws] = "open"
  /\ sent' = <<Msg(ws, "error", NoId, NoReq, <<>>, "Missing screenId")>>
  /\ UNCHANGED <<routerVars, nativeVars, clientVars>>

\* register-screen.  existing.close() runs the close handler of the replaced
\* connection either inside the call (inline = TRUE) or as a later event.
RegisterScreen(ws, screenId, inline) ==
  /\ ~errorEventPending
  /\ connState[ws] = "open"
  /\ LET existing == IF screenId \in DOMAIN screens THEN screens[screenId] ELSE NoId
         closes == closesExisting(existing, ws)
         after == IF closes /\ inline
                    THEN closeHandler(existing, screens, controllers)
                    ELSE [screens |-> screens, controllers |-> controllers, out |-> <<>>]
     IN  /\ (inline = FALSE \/ closes)
         /\ connState' = IF closes
                           THEN [connState EXCEPT ![existing] =
                                   IF inline THEN "closed" ELSE "closing"]
                           ELSE connState
         /\ screens' = MapSet(after.screens, screenId, ws)
         /\ controllers' = after.controllers
         /\ released' = IF closes /\ inline
                          THEN releasedAfterClose(existing, controllers, released)
                          ELSE released
         /\ wsData' = [wsData EXCEPT ![ws] =
                         [id |-> screenId, type |-> "screen", screenId |-> @.screenId]]
         /\ sent' = after.out \o
                    <<Msg(ws, "registered", screenId, NoReq, <<>>, ""),
                      Msg(ws, "btControllersUpdate", NoId, NoReq, <<>>, "")>>
  /\ UNCHANGED <<nativeVars, clientVars>>

\* register-controller.  controllerId or screenId may be missing (NoId).
RegisterController(ws, controllerId, screenId, requestedPlayerNum) ==
  /\ ~errorEventPending
  /\ connState[ws] = "open"
  /\ UNCHANGED <<nativeVars, clientVars>>
  /\ IF controllerId = NoId \/ screenId = NoId
       THEN /\ sent' = <<Msg(ws, "error", NoId, NoReq, <<>>, "Missing controllerId or screenId")>>
            /\ UNCHANGED routerVars
       ELSE IF screenId \notin DOMAIN screens /\ ~nativeRunning
         THEN /\ sent' = <<Msg(ws, "error", NoId, NoReq, <<>>, "Screen not found")>>
              /\ UNCHANGED routerVars
         ELSE IF validRequest(requestedPlayerNum)
                 /\ slotTaken(controllers, controllerId, screenId, requestedPlayerNum)
           THEN /\ sent' = <<Msg(ws, "error", NoId, requestedPlayerNum + 1, <<>>,
                                 "player-slot-taken")>>
                /\ UNCHANGED routerVars
           ELSE LET playerNum == assignPlayerNum(controllers, controllerId, screenId,
                                                 requestedPlayerNum)
                    ctl == MapSet(controllers, controllerId,
                                  [ws |-> ws, screenId |-> screenId, playerNum |-> playerNum])
                IN  /\ controllers' = ctl
                    /\ released' = releasedAfterAssign(controllerId, screenId, playerNum,
                                                       released)
                    /\ wsData' = [wsData EXCEPT ![ws] =
                                    [id |-> controllerId, type |-> "controller",
                                     screenId |-> screenId]]
                    /\ sent' = <<Msg(ws, "registered", controllerId, playerNum, <<>>, "")>>
                               \o (IF screenId \in DOMAIN screens
                                     THEN <<Msg(screens[screenId], "controller-connected",
                                                controllerId, playerNum, <<>>, "")>>
                                     ELSE <<>>)
                               \o broadcastPlayerList(ctl, screenId)
                               \o (IF nativeRunning
                                     THEN <<Msg(ws, "nativeState", NoId, NoReq, <<>>, state)>>
                                     ELSE <<>>)
                    /\ UNCHANGED <<screens, connState>>

\* heartbeat
Heartbeat(ws) ==
  /\ ~errorEventPending
  /\ connState[ws] = "open"
  /\ sent' = <<Msg(ws, "heartbeat-ack", NoId, NoReq, <<>>, "")>>
  /\ UNCHANGED <<routerVars, nativeVars, clientVars>>

\* The close event of a connection (the peer went away, or a close() called
\* earlier by register-screen is delivered).
Close(ws) ==
  /\ ~errorEventPending
  /\ connState[ws] \in {"open", "closing"}
  /\ LET after == closeHandler(ws, screens, controllers)
     IN  /\ screens' = after.screens
         /\ controllers' = after.controllers
         /\ sent' = after.out
  /\ released' = releasedAfterClose(ws, controllers, released)
  /\ connState' = [connState EXCEPT ![ws] = "closed"]
  /\ UNCHANGED <<wsData, nativeVars, clientVars>>

\* webrtc-offer: relayed to the screen named by the sender's ws.data.screenId.
WebrtcOffer(ws) ==
  /\ ~errorEventPending
  /\ connState[ws] = "open"
  /\ sent' = IF wsData[ws].screenId \in DOMAIN screens
               THEN <<Msg(screens[wsData[ws].screenId], "webrtc-offer",
                          wsData[ws].id, NoReq, <<>>, "")>>
               ELSE <<>>
  /\ UNCHANGED <<routerVars, nativeVars, clientVars>>

\* webrtc-answer: relayed to the controller named by msg.to.
WebrtcAnswer(ws, to) ==
  /\ ~errorEventPending
  /\ connState[ws] = "open"
  /\ sent' = IF to \in DOMAIN controllers
               THEN <<Msg(controllers[to].ws, "webrtc-answer", NoId, NoReq, <<>>, "")>>
               ELSE <<>>
  /\ UNCHANGED <<routerVars, nativeVars, clientVars>>

\* ice-candidate: by the sender's role tag.
IceCandidate(ws, to) ==
  /\ ~errorEventPending
  /\ connState[ws] = "open"
  /\ sent' = IF wsData[ws].type = "controller"
               THEN IF wsData[ws].screenId \in DOMAIN screens
                      THEN <<Msg(screens[wsData[ws].screenId], "ice-candidate",
                                 wsData[ws].id, NoReq, <<>>, "")>>
                      ELSE <<>>
               ELSE IF wsData[ws].type = "screen" /\ to \in DOMAIN controllers
                      THEN <<Msg(controllers[to].ws, "ice-candidate", NoId, NoReq, <<>>, "")>>
                      ELSE <<>>
  /\ UNCHANGED <<routerVars, nativeVars, clientVars>>

\* A faulty variant of stamp: a value the client supplied is kept.
stampIfAbsent(supplied, recorded) == IF supplied = NoReq THEN recorded ELSE supplied

\* msg.playerNum = ctrl.playerNum, msg.params.player = ctrl.playerNum: the
\* recorded value replaces whatever the client supplied.
stamp(supplied, recorded) == recorded

\* Any other message type ("Route other messages").  targetController is
\* msg.targetController (NoId = absent); simulate says msg.method is
\* "input.simulate" with a params object; supplied is the player number the
\* client put into msg.playerNum and msg.params.player (NoReq = none).  A
\* forwarded message carries msg.controllerId in id, msg.playerNum in num and
\* params.player in players.
Generic(ws, targetController, simulate, supplied) ==
  /\ ~errorEventPending
  /\ connState[ws] = "open"
  /\ sent' =
       IF wsData[ws].type = "controller"
         THEN IF wsData[ws].id \in DOMAIN controllers
                 /\ controllers[wsData[ws].id].screenId \in DOMAIN screens
                THEN LET ctrl == controllers[wsData[ws].id] IN
                     <<Msg(screens[ctrl.screenId], "generic", wsData[ws].id,
                           stamp(supplied, ctrl.playerNum),
                           IF simulate THEN <<stamp(supplied, ctrl.playerNum)>> ELSE <<>>,
                           IF simulate THEN "input.simulate" ELSE "other")>>
                ELSE <<>>
         ELSE IF wsData[ws].type = "screen"
           THEN IF targetController # NoId
                  THEN IF targetController \in DOMAIN controllers
                          /\ controllers[targetController].screenId = wsData[ws].id
                         THEN <<Msg(controllers[targetController].ws, "generic", NoId, supplied,
                                    <<>>, IF simulate THEN "input.simulate" ELSE "other")>>
                         ELSE <<>>
                  ELSE LET ids == ControllersOf(controllers, wsData[ws].id) IN
                       [i \in 1..Len(ids) |->
                          Msg(controllers[ids[i]].ws, "generic", NoId, supplied, <<>>,
                              IF simulate THEN "input.simulate" ELSE "other")]
           ELSE <<>>
  /\ UNCHANGED <<routerVars, nativeVars, clientVars>>

\* ------------------------------------------------- native orchestrator
Systems == {"snes", "psx", "nosuch"}
Roms == {"game.zip", "game.sfc", "missing"}
\* NEEDS_EXTRACTION.has(system) && romPath.toLowerCase().endsWith(".zip")
needsExtraction(system, rom) == system = "psx" /\ rom = "game.zip"
\* A faulty variant of coreFound: every system id has a core.
coreFoundAlways(system) == TRUE

\* resolveCorePath(system) and existsSync(corePath)
coreFound(system) == system \in {"snes", "psx"}
\* existsSync(romPath)
romExists(rom) == rom # "missing"

\* extractRom ends in one of: a content file found ("ok"), a shell command
\* threw ("throws"), the archive holds no usable file ("empty").
ExtractOutcomes == {"ok", "throws", "empty"}
\* stopKiosk ends in one of: all commands ran ("ok"), a command before the
\* override was written threw ("early"), daemon-reload or stop threw ("late").
StopOutcomes == {"ok", "early", "late"}
\* spawn() returns a running child ("alive"), returns a child whose spawn
\* fails with an 'error' event ("spawnfail"), or throws ("throws").
SpawnOutcomes == {"alive", "spawnfail", "throws"}
\* how the process ends: exit code 0, or killed by SIGTERM
ExitKinds == {"code0", "sigterm"}
\* quitNative's kill: some kill command succeeded, or both threw
KillOutcomes == {"ok", "fail"}

\* cleanupExtraction(): removes extractedDir and every directory under EXTRACT_DIR.
cleanupExtraction == [extractedDir |-> 0, scratch |-> {}]

\* extractRom(system, zipPath) for launch l, by outcome.
extractRom(l, outcome) ==
  IF outcome = "throws"
    THEN [path |-> FALSE, extractedDir |-> cleanupExtraction.extractedDir,
          scratch |-> cleanupExtraction.scratch]
    ELSE [path |-> (outcome = "ok"), extractedDir |-> l,
          scratch |-> cleanupExtraction.scratch \cup {l}]

\* A faulty variant of stopKiosk: a failed stop is reported as a success.
stopKioskAlwaysOk(outcome) ==
  [ok |-> TRUE,
   kioskOverride |-> IF outcome = "early" THEN kioskOverride ELSE TRUE,
   kioskActive |-> IF outcome = "ok" THEN FALSE ELSE kioskActive]

\* stopKiosk(), by outcome.
stopKiosk(outcome) ==
  [ok |-> (outcome = "ok"),
   kioskOverride |-> IF outcome = "early" THEN kioskOverride ELSE TRUE,
   kioskActive |-> IF outcome = "ok" THEN FALSE ELSE kioskActive]

\* restartKiosk(): override removed, service restarted.
restartKiosk == [kioskOverride |-> FALSE, kioskActive |-> TRUE]

\* The first launch id not yet used.
NextLaunch == Min({l \in LaunchIds : lpc[l] = "unused"})

\* nativeState broadcast "to all clients": every screen, then every controller.
broadcastAll(type, num, text) ==
  LET sids == SetToSeq(DOMAIN screens)
      cids == SetToSeq(DOMAIN controllers)
  IN  [i \in 1..Len(sids) |-> Msg(screens[sids[i]], type, NoId, num, <<>>, text)]
      \o [i \in 1..Len(cids) |-> Msg(controllers[cids[i]].ws, type, NoId, num, <<>>, text)]

\* The HTTP API (caller 0) or a connection whose messages are still delivered.
callerOpen(caller) == IF caller = 0 THEN TRUE ELSE connState[caller] = "open"

\* A faulty variant of launchAllowed: the idle guard is missing.
launchAllowedNoGuard == TRUE

\* if (state !== "idle") return { ok: false, ... }
launchAllowed == state = "idle"

\* The reply of the launchNative message handler (nothing for the HTTP API).
launchReply(caller, ok) ==
  IF caller = 0 THEN <<>>
  ELSE <<Msg(caller, "nativeLaunchResult", NoId, IF ok THEN 1 ELSE 0, <<>>, "")>>

\* launchNative(system, romPath, {onExit}) up to its first await, called by
\* the launchNative message of connection caller or (caller = 0) by
\* POST /api/native/launch.  ex and st are the outcomes of extractRom and
\* stopKiosk ("skip" when the call does not get there).
launchNative(caller, system, rom, ex, st) ==
  /\ ~errorEventPending
  /\ callerOpen(caller)
  /\ UNCHANGED <<routerVars, clientVars, cageProcess, calls>>
  /\ IF ~launchAllowed
       THEN /\ ex = "skip" /\ st = "skip"
            /\ result' = "invalid-state"
            /\ sent' = launchReply(caller, FALSE)
            /\ UNCHANGED <<state, currentCore, currentRom, exitCallback, extractedDir,
                           scratch, kioskOverride, kioskActive, lpc, lcaller>>
       ELSE IF ~coreFound(system) \/ ~romExists(rom)
         THEN /\ ex = "skip" /\ st = "skip"
              /\ result' = IF ~coreFound(system) THEN "core-not-found" ELSE "rom-not-found"
              /\ sent' = launchReply(caller, FALSE)
              /\ UNCHANGED <<state, currentCore, currentRom, exitCallback, extractedDir,
                             scratch, kioskOverride, kioskActive, lpc, lcaller>>
         ELSE
           /\ \E l \in LaunchIds : lpc[l] = "unused"
           /\ LET l == NextLaunch
                  x == IF needsExtraction(system, rom)
                         THEN extractRom(l, ex)
                         ELSE [path |-> TRUE, extractedDir |-> extractedDir, scratch |-> scratch]
                  k == stopKiosk(st)
              IN
              /\ (IF needsExtraction(system, rom) THEN ex \in ExtractOutcomes ELSE ex = "skip")
              /\ (IF x.path THEN st \in StopOutcomes ELSE st = "skip")
              /\ exitCallback' = l
              /\ lcaller' = [lcaller EXCEPT ![l] = caller]
              /\ extractedDir' = x.extractedDir
              /\ scratch' = x.scratch
              /\ IF ~x.path
                   THEN /\ state' = "idle" /\ currentCore' = "" /\ currentRom' = ""
                        /\ lpc' = [lpc EXCEPT ![l] = "failed"]
                        /\ result' = "extract-failed"
                        /\ sent' = launchReply(caller, FALSE)
                        /\ UNCHANGED <<kioskOverride, kioskActive>>
                   ELSE /\ kioskOverride' = k.kioskOverride
                        /\ kioskActive' = k.kioskActive
                        /\ IF ~k.ok
                             THEN /\ state' = "idle" /\ currentCore' = "" /\ currentRom' = ""
                                  /\ lpc' = [lpc EXCEPT ![l] = "failed"]
                                  /\ result' = "kiosk-stop-failed"
                                  /\ sent' = launchReply(caller, FALSE)
                             ELSE /\ state' = "launching"
                                  /\ currentCore' = system /\ currentRom' = rom
                                  /\ lpc' = [lpc EXCEPT ![l] = "settle"]
                                  /\ result' = "pending"
                                  /\ sent' = <<>>

\* launchNative after the settle delay: spawn, by outcome, and the rest of the
\* message handler (reply, nativeState broadcast).
launchSpawn(l, outcome) ==
  /\ ~errorEventPending
  /\ lpc[l] = "settle"
  /\ UNCHANGED <<routerVars, clientVars, exitCallback, lcaller, calls>>
  /\ IF outcome = "throws"
       THEN /\ state' = "idle" /\ currentCore' = "" /\ currentRom' = ""
            /\ extractedDir' = cleanupExtraction.extractedDir
            /\ scratch' = cleanupExtraction.scratch
            /\ kioskOverride' = restartKiosk.kioskOverride
            /\ kioskActive' = restartKiosk.kioskActive
            /\ lpc' = [lpc EXCEPT ![l] = "failed"]
            /\ result' = "spawn-threw"
            /\ sent' = launchReply(lcaller[l], FALSE)
            /\ UNCHANGED cageProcess
       ELSE /\ cageProcess' = l
            /\ state' = "running"
            /\ lpc' = [lpc EXCEPT ![l] = outcome]
            /\ result' = "ok"
            /\ sent' = IF lcaller[l] = 0 THEN <<>>
                       ELSE launchReply(lcaller[l], TRUE)
                            \o broadcastAll("nativeState", NoReq, "running")
            /\ UNCHANGED <<currentCore, currentRom, extractedDir, scratch,
                           kioskOverride, kioskActive>>

\* cageProcess.on("exit") of launch l: the process ended (how), or an exit
\* event follows the error event of a failed spawn.
procExit(l, how) ==
  /\ ~errorEventPending
  /\ lpc[l] \in {"alive", "errored"}
  /\ lpc' = [lpc EXCEPT ![l] = "exited"]
  /\ state' = "idle"
  /\ cageProcess' = 0
  /\ currentCore' = "" /\ currentRom' = ""
  /\ extractedDir' = cleanupExtraction.extractedDir
  /\ scratch' = cleanupExtraction.scratch
  /\ kioskOverride' = restartKiosk.kioskOverride
  /\ kioskActive' = restartKiosk.kioskActive
  /\ IF exitCallback # 0
       THEN /\ calls' = [calls EXCEPT ![exitCallback] = @ + 1]
            /\ sent' = broadcastAll("nativeExit", IF how = "code0" THEN 0 ELSE NoReq,
                                    IF how = "code0" THEN "" ELSE "SIGTERM")
       ELSE /\ sent' = <<>>
            /\ UNCHANGED calls
  /\ exitCallback' = 0
  /\ UNCHANGED <<routerVars, clientVars, lcaller, result>>

\* cageProcess.on("error") of launch l: the spawn failed.
procError(l) ==
  /\ lpc[l] = "spawnfail"
  /\ lpc' = [lpc EXCEPT ![l] = "errored"]
  /\ state' = "idle"
  /\ cageProcess' = 0
  /\ currentCore' = "" /\ currentRom' = ""
  /\ extractedDir' = cleanupExtraction.extractedDir
  /\ scratch' = cleanupExtraction.scratch
  /\ kioskOverride' = restartKiosk.kioskOverride
  /\ kioskActive' = restartKiosk.kioskActive
  /\ sent' = <<>>
  /\ UNCHANGED <<routerVars, clientVars, exitCallback, lcaller, calls, result>>

\* if (state !== "running" || !cageProcess) return { ok: false, ... }
quitAllowed == state = "running" /\ cageProcess # 0

\* quitNative(), called by the quitNative message of connection caller or
\* (caller = 0) by POST /api/native/quit; kill is the outcome of the kill
\* commands ("skip" when the call does not get there).
quitNative(caller, kill) ==
  /\ ~errorEventPending
  /\ callerOpen(caller)
  /\ IF ~quitAllowed
       THEN /\ kill = "skip"
            /\ result' = "cannot-quit"
            /\ sent' = IF caller = 0 THEN <<>>
                       ELSE <<Msg(caller, "nativeQuitResult", NoId, 0, <<>>, "")>>
            /\ UNCHANGED state
       ELSE /\ kill \in KillOutcomes
            /\ state' = "stopping"
            /\ result' = IF kill = "ok" THEN "quit-ok" ELSE "kill-failed"
            /\ sent' = IF caller = 0 THEN <<>>
                       ELSE <<Msg(caller, "nativeQuitResult", NoId,
                                  IF kill = "ok" THEN 1 ELSE 0, <<>>, "")>>
  /\ UNCHANGED <<routerVars, clientVars, cageProcess, currentCore, currentRom, exitCallback,
                 extractedDir, scratch, kioskOverride, kioskActive, lpc, lcaller, calls>>

\* getNativeState
GetNativeState(ws) ==
  /\ ~errorEventPending
  /\ connState[ws] = "open"
  /\ sent' = <<Msg(ws, "nativeState", NoId, NoReq, <<>>, state)>>
  /\ UNCHANGED <<routerVars, nativeVars, clientVars>>

\* ------------------------------------------- client WebSocketManager
\* What the client steps leave alone.
serverVars == <<routerVars, nativeVars, sent>>

\* this.ws?.readyState === WebSocket.OPEN
isOpen == managerWs # 0 /\ readyState[managerWs] = "open"

NextSocket == Min({s \in SocketIds : readyState[s] = "unused"})

\* connect(): returns when the current socket is open, creates a socket and
\* binds its handlers otherwise.
connect ==
  IF isOpen
    THEN UNCHANGED <<managerWs, readyState>>
    ELSE /\ \E s \in SocketIds : readyState[s] = "unused"
         /\ managerWs' = NextSocket
         /\ readyState' = [readyState EXCEPT ![NextSocket] = "connecting"]

\* The application calls connect().
Connect ==
  /\ connect
  /\ disconnected' = FALSE
  /\ clientSent' = 0
  /\ UNCHANGED <<heartbeatInterval, reconnectTimers, requested, serverVars>>

\* A timer set by a close handler fires: () => this.connect().
ReconnectTimer ==
  /\ reconnectTimers > 0
  /\ reconnectTimers' = reconnectTimers - 1
  /\ connect
  /\ clientSent' = 0
  /\ UNCHANGED <<heartbeatInterval, requested, disconnected, serverVars>>

\* The open event of socket s: startHeartbeat() (stopHeartbeat, setInterval).
onopen(s) ==
  /\ readyState[s] = "connecting"
  /\ readyState' = [readyState EXCEPT ![s] = "open"]
  /\ heartbeatInterval' = TRUE
  /\ clientSent' = 0
  /\ UNCHANGED <<managerWs, reconnectTimers, requested, disconnected, serverVars>>

\* The close event of socket s (the connection failed, the peer or the
\* network closed it, or close() was called on it): stopHeartbeat() and
\* setTimeout(() => this.connect(), RECONNECT_DELAY).
onclose(s) ==
  /\ readyState[s] \in {"connecting", "open", "closing"}
  /\ readyState' = [readyState EXCEPT ![s] = "closed"]
  /\ heartbeatInterval' = FALSE
  /\ reconnectTimers' = reconnectTimers + 1
  /\ clientSent' = 0
  /\ UNCHANGED <<managerWs, requested, disconnected, serverVars>>

\* The interval set by startHeartbeat() fires: send({ type: 'heartbeat' }),
\* which sends when the current socket is open.
HeartbeatTick ==
  /\ heartbeatInterval
  /\ clientSent' = IF isOpen THEN managerWs ELSE 0
  /\ UNCHANGED <<managerWs, readyState, heartbeatInterval, reconnectTimers,
                 requested, disconnected, serverVars>>

\* disconnect(): stopHeartbeat(), this.ws?.close(), this.ws = null.  close()
\* on a socket that is connecting or open starts its closing handshake; its
\* close event comes later.
Disconnect ==
  /\ heartbeatInterval' = FALSE
  /\ IF managerWs # 0 /\ readyState[managerWs] \in {"connecting", "open"}
       THEN /\ readyState' = [readyState EXCEPT ![managerWs] = "closing"]
            /\ requested' = [requested EXCEPT ![managerWs] = TRUE]
       ELSE UNCHANGED <<readyState, requested>>
  /\ managerWs' = 0
  /\ disconnected' = TRUE
  /\ clientSent' = 0
  /\ UNCHANGED <<reconnectTimers, serverVars>>

\* ------------------------------------------------------ specifications
Init ==
  /\ screens = EmptyMap
  /\ controllers = EmptyMap
  /\ wsData = [c \in Conns |-> [id |-> NoId, type |-> "none", screenId |-> NoId]]
  /\ connState = [c \in Conns |-> "open"]
  /\ sent = <<>>
  /\ state = "idle"
  /\ cageProcess = 0
  /\ currentCore = ""
  /\ currentRom = ""
  /\ exitCallback = 0
  /\ extractedDir = 0
  /\ scratch = {}
  /\ kioskOverride = FALSE
  /\ kioskActive = TRUE
  /\ lpc = [l \in LaunchIds |-> "unused"]
  /\ lcaller = [l \in LaunchIds |-> 0]
  /\ calls = [l \in LaunchIds |-> 0]
  /\ result = "none"
  /\ released = [k \in SlotCtrlIds |-> NoSlot]
  /\ managerWs = 0
  /\ readyState = [s \in SocketIds |-> "unused"]
  /\ heartbeatInterval = FALSE
  /\ reconnectTimers = 0
  /\ clientSent = 0
  /\ requested = [s \in SocketIds |-> FALSE]
  /\ disconnected = FALSE

\* The orchestrator's operations and events; launchNative and quitNative are
\* called by callers (a connection's message, or 0 for the HTTP API), and at
\* most maxl launches get past the guards of launchNative.
NativeNext(callers, maxl) ==
  \/ \E caller \in callers, system \in Systems, rom \in Roms,
        ex \in ExtractOutcomes \cup {"skip"}, st \in StopOutcomes \cup {"skip"} :
       /\ state = "idle" => Cardinality({l \in LaunchIds : lpc[l] # "unused"}) < maxl
       /\ launchNative(caller, system, rom, ex, st)
  \/ \E l \in LaunchIds, outcome \in SpawnOutcomes : launchSpawn(l, outcome)
  \/ \E l \in LaunchIds, how \in ExitKinds : procExit(l, how)
  \/ \E l \in LaunchIds : procError(l)
  \/ \E caller \in callers, kill \in KillOutcomes \cup {"skip"} : quitNative(caller, kill)

SpecNative == Init /\ [][NativeNext({0, 1}, MaxLaunches)]_vars

\* The orchestrator with its scheduling: the settle timer of a launch fires,
\* the error event of a failed spawn is delivered, and every running process
\* terminates at some time.
NativeFairness ==
  /\ WF_vars(\E l \in LaunchIds, outcome \in SpawnOutcomes : launchSpawn(l, outcome))
  /\ WF_vars(\E l \in LaunchIds : procError(l))
  /\ WF_vars(\E l \in LaunchIds, how \in ExitKinds : lpc[l] = "alive" /\ procExit(l, how))

SpecNativeFair == SpecNative /\ NativeFairness

\* ------------------------------------------------ router specifications
\* register-* messages and close events: connections conns register screen
\* ids sids and controller ids cids, requesting slots reqs.
RegistryNext(sconns, cconns, cids, sids, reqs) ==
  \/ \E ws \in sconns : RegisterScreenMissing(ws)
  \/ \E ws \in sconns, screenId \in sids, inline \in BOOLEAN :
       RegisterScreen(ws, screenId, inline)
  \/ \E ws \in cconns, controllerId \in cids \cup {NoId}, screenId \in sids \cup {NoId},
        requestedPlayerNum \in reqs :
       /\ (controllerId = NoId \/ screenId = NoId) => requestedPlayerNum = NoReq
       /\ RegisterController(ws, controllerId, screenId, requestedPlayerNum)
  \/ \E ws \in sconns \cup cconns : Close(ws)

\* Every other message type, sent by connections conns.
MessageNext(conns, cids) ==
  \/ \E ws \in conns : Heartbeat(ws)
  \/ \E ws \in conns : WebrtcOffer(ws)
  \/ \E ws \in conns, to \in cids \cup {NoId} : WebrtcAnswer(ws, to)
  \/ \E ws \in conns, to \in cids \cup {NoId} : IceCandidate(ws, to)
  \/ \E ws \in conns, targetController \in cids \cup {NoId}, simulate \in BOOLEAN,
        supplied \in SuppliedValues :
       Generic(ws, targetController, simulate, supplied)
  \/ \E ws \in conns : GetNativeState(ws)

\* Connections that register screens, connections that register controllers
\* (the ones in both do either), and the screen id the registry runs use.
ScreenConns == 1..(NumConns - 1)
CtrlConns == 2..NumConns
RegScreenIds == {Min(ScreenIds)}

\* The registry: registrations on one screen id, with or without a requested
\* slot, and connection closes.
Next == RegistryNext(ScreenConns, CtrlConns, CtrlIds, RegScreenIds, RequestValues)

Spec == Init /\ [][Next]_vars

\* Overflow registrations: the first connection registers the screen, and it
\* and the next register controller ids without a requested slot.  Controller
\* ids are taken in increasing order: an id is used only when all smaller
\* ones have been used.
SlotConns == 1..(NumConns - 1)
SlotIdsInUse ==
  {k \in SlotCtrlIds : k <= Cardinality(DOMAIN controllers) + 1}
SlotsNext ==
  \/ \E inline \in BOOLEAN : RegisterScreen(Min(SlotConns), Min(RegScreenIds), inline)
  \/ \E ws \in SlotConns, controllerId \in SlotIdsInUse :
       RegisterController(ws, controllerId, Min(RegScreenIds), NoReq)
  \/ \E ws \in SlotConns : Close(ws)

SpecSlots == Init /\ [][SlotsNext]_vars

\* Slot allocation: as SlotsNext, with registrations that request a slot or
\* carry a requestedPlayerNum outside 0..3.
AllocRequests == {NoReq, MaxRequested, MaxPlayers}
AllocNext ==
  \/ \E inline \in BOOLEAN : RegisterScreen(Min(SlotConns), Min(RegScreenIds), inline)
  \/ \E ws \in SlotConns, controllerId \in SlotIdsInUse, requestedPlayerNum \in AllocRequests :
       RegisterController(ws, controllerId, Min(RegScreenIds), requestedPlayerNum)
  \/ \E ws \in SlotConns : Close(ws)

SpecAlloc == Init /\ [][AllocNext]_vars

\* Routing: the first connection registers screens, the others register
\* controllers on every screen id without a requested slot, and every
\* connection sends every other message type.
RoutingNext ==
  \/ RegistryNext({Min(Conns)}, CtrlConns, CtrlIds, ScreenIds, {NoReq})
  \/ MessageNext(Conns, CtrlIds)

SpecRouting == Init /\ [][RoutingNext]_vars

\* Registrations while the orchestrator runs launches requested over HTTP.
NativeRegConns == {Min(Conns) + 1}
NativeRegRequests == {NoReq, 0}
NativeRegLaunches == MaxLaunches - 1
NativeRegNext ==
  \/ NativeNext({0}, NativeRegLaunches)
  \/ RegistryNext({Min(Conns)}, NativeRegConns, CtrlIds, RegScreenIds, NativeRegRequests)

SpecNativeReg == Init /\ [][NativeRegNext]_vars

\* Launches and quits requested by the launchNative and quitNative messages
\* of the screen connection, while a controller connection registers.
RouterNativeNext ==
  \/ NativeNext({Min(Conns)}, NativeRegLaunches)
  \/ RegistryNext({Min(Conns)}, NativeRegConns, CtrlIds, RegScreenIds, {NoReq})

SpecRouterNative == Init /\ [][RouterNativeNext]_vars

\* The client manager: the application's connect() and disconnect() calls,
\* the socket events, and the two timers.
ClientNext ==
  \/ Connect
  \/ ReconnectTimer
  \/ Disconnect
  \/ \E s \in SocketIds : onopen(s)
  \/ \E s \in SocketIds : onclose(s)
  \/ HeartbeatTick

SpecClient == Init /\ [][ClientNext]_vars

\* ------------------------------------------------------------- claims
NativeCallers == {0, 1}
LaunchInputs ==
  [caller : NativeCallers, system : Systems, rom : Roms,
   ex : ExtractOutcomes \cup {"skip"}, st : StopOutcomes \cup {"skip"}]

\* C2 (single-flight launch): a launchNative call made while the state is not
\* idle returns the invalid-state error and leaves state, core, rom, the
\* recorded exit callback and the launches in flight as they were.
C2_SingleFlight ==
  [][\A i \in LaunchInputs :
       (state # "idle" /\ launchNative(i.caller, i.system, i.rom, i.ex, i.st))
       => /\ result' = "invalid-state"
          /\ UNCHANGED <<state, currentCore, currentRom, exitCallback, lpc, lcaller>>]_vars

\* A second launch was refused during the settle delay of the first.
C2_Witness ==
  /\ result = "invalid-state"
  /\ state = "launching"
  /\ \E l \in LaunchIds : lpc[l] = "settle" /\ exitCallback = l

\* Some launch failed in this step (extraction, kiosk stop or spawn exception).
LaunchFailedStep == \E l \in LaunchIds : lpc[l] # "failed" /\ lpc'[l] = "failed"

\* C3 (cleanup after failure): whichever step of an accepted launch fails
\* (extraction, display-service stop, spawn, runtime exit), the orchestrator
\* is then idle with core and rom null and no scratch directory on disk.
C3_CleanupAfterFailure ==
  [][(LaunchFailedStep \/ \E l \in LaunchIds :
                           procError(l) \/ \E how \in ExitKinds : procExit(l, how))
     => /\ state' = "idle"
        /\ currentCore' = "" /\ currentRom' = ""
        /\ scratch' = {}]_vars

\* C4 (display-service restoration): the orchestrator is never idle with the
\* kiosk override installed or the display service not running.
C4_KioskRestored == state = "idle" => (~kioskOverride /\ kioskActive)

\* ------------------------------------------- claims about the registry
\* The reply of an accepted register-controller comes first in sent.
Accepted(ws, controllerId) ==
  /\ Len(sent') >= 1
  /\ sent'[1].to = ws /\ sent'[1].type = "registered" /\ sent'[1].id = controllerId

\* Another controller id holds slot p on screenId.
HeldByOther(controllerId, screenId, p) ==
  \E k \in DOMAIN controllers \ {controllerId} :
     controllers[k].screenId = screenId /\ controllers[k].playerNum = p

\* C6 (slot reuse): a controller id whose session on a screen was destroyed
\* by a disconnect while it held slot p, and that registers again without a
\* requested slot on the same screen before any other controller was assigned
\* p there, is assigned p again.
C6_SlotReuse ==
  [][\A ws \in CtrlConns, controllerId \in CtrlIds, screenId \in RegScreenIds :
       ( /\ released[controllerId].screenId = screenId
         /\ RegisterController(ws, controllerId, screenId, NoReq)
         /\ Accepted(ws, controllerId) )
       => controllers'[controllerId].playerNum = released[controllerId].playerNum]_vars

\* C7 (slot conflict), as the code has it: a register-controller that passes
\* the screen check (the screen is registered, or the orchestrator is not
\* idle) and requests a slot in 0..3 is refused with player-slot-taken and
\* requestedPlayer = slot + 1, the registry untouched, when another
\* controller id holds that slot on the screen; when none does (the holder
\* has disconnected) it is accepted with playerNum equal to the requested slot.
C7_SlotConflict ==
  [][\A ws \in CtrlConns, controllerId \in CtrlIds, screenId \in RegScreenIds,
        p \in RequestValues \cap (0..(MaxPlayers - 1)) :
       ( /\ screenId \in DOMAIN screens \/ state # "idle"
         /\ RegisterController(ws, controllerId, screenId, p) )
       => IF HeldByOther(controllerId, screenId, p)
            THEN /\ sent' = <<Msg(ws, "error", NoId, p + 1, <<>>, "player-slot-taken")>>
                 /\ UNCHANGED <<screens, controllers, wsData>>
            ELSE /\ Accepted(ws, controllerId)
                 /\ sent'[1].num = p
                 /\ controllers'[controllerId] =
                      [ws |-> ws, screenId |-> screenId, playerNum |-> p]]_vars

\* A request for slot 1 was refused because another controller holds it.
C7_Witness ==
  /\ Len(sent) = 1
  /\ sent[1].text = "player-slot-taken" /\ sent[1].num = 2
  /\ \E k \in DOMAIN controllers : controllers[k].playerNum = 1

\* C7 as stated: a register-controller requesting a slot in 0..3 that another
\* controller id holds on the same screen id is refused with
\* player-slot-taken; and when the holder has disconnected and nobody else
\* holds the slot, the same request is accepted with that slot.
C7_SlotConflictAsStated ==
  [][\A ws \in CtrlConns, controllerId \in CtrlIds, screenId \in RegScreenIds,
        p \in RequestValues \cap (0..(MaxPlayers - 1)) :
       RegisterController(ws, controllerId, screenId, p)
       => /\ HeldByOther(controllerId, screenId, p)
             => sent' = <<Msg(ws, "error", NoId, p + 1, <<>>, "player-slot-taken")>>
          /\ ( /\ ~HeldByOther(controllerId, screenId, p)
               /\ \E k \in CtrlIds \ {controllerId} :
                    released[k] = [screenId |-> screenId, playerNum |-> p] )
             => /\ Accepted(ws, controllerId)
                /\ controllers'[controllerId].playerNum = p]_vars

\* C9 (screen replacement): when a connection registers a screen id that a
\* different connection holds, the old connection is closed, the registry
\* maps the id to the new connection, and the new connection is sent
\* registered followed by the controller-presence snapshot.
C9_ScreenReplacement ==
  [][\A ws \in ScreenConns, screenId \in RegScreenIds, inline \in BOOLEAN :
       ( /\ screenId \in DOMAIN screens
         /\ screens[screenId] # ws
         /\ RegisterScreen(ws, screenId, inline) )
       => /\ connState'[screens[screenId]] # "open"
          /\ screens'[screenId] = ws
          /\ Len(sent') >= 2
          /\ sent'[Len(sent') - 1] = Msg(ws, "registered", screenId, NoReq, <<>>, "")
          /\ sent'[Len(sent')] = Msg(ws, "btControllersUpdate", NoId, NoReq, <<>>, "")]_vars

\* A screen connection was replaced: its close is pending, the registry maps
\* its id to the newcomer, which was just sent the presence snapshot.
C9_Witness ==
  \E c1 \in Conns, c2 \in Conns :
     /\ c1 # c2
     /\ connState[c1] = "closing"
     /\ wsData[c1].type = "screen"
     /\ wsData[c1].id \in DOMAIN screens
     /\ screens[wsData[c1].id] = c2
     /\ Len(sent) >= 2
     /\ sent[Len(sent)].type = "btControllersUpdate" /\ sent[Len(sent)].to = c2

\* C10 (connection role is one-way): once a connection carries a role tag,
\* neither the tag nor the identity stored with it changes.
C10_RoleOneWay ==
  [][\A c \in Conns :
       wsData[c].type # "none"
       => /\ wsData'[c].type = wsData[c].type
          /\ wsData'[c].id = wsData[c].id]_vars

\* C1 (slot uniqueness): no two controller sessions with the same screenId
\* hold the same playerNum.
C1_SlotUniqueness ==
  \A a \in DOMAIN controllers, b \in DOMAIN controllers :
     (a # b /\ controllers[a].screenId = controllers[b].screenId)
     => controllers[a].playerNum # controllers[b].playerNum

\* The connection is the one some controller session is registered on.
IsControllerConn(c) == \E k \in DOMAIN controllers : controllers[k].ws = c

\* The step is the relay of a signaling or generic message sent by ws.
Forwards(ws) ==
  \/ WebrtcOffer(ws)
  \/ \E to \in CtrlIds \cup {NoId} : WebrtcAnswer(ws, to) \/ IceCandidate(ws, to)
  \/ \E targetController \in CtrlIds \cup {NoId}, simulate \in BOOLEAN,
        supplied \in SuppliedValues :
       Generic(ws, targetController, simulate, supplied)

\* C5 (routing isolation): whatever a connection registered as a controller
\* sends is delivered only to the connection registered for its screen, and
\* never to a connection that a controller session is registered on.
C5_RoutingIsolation ==
  [][\A ws \in Conns :
       (wsData[ws].type = "controller" /\ Forwards(ws))
       => \A i \in 1..Len(sent') :
             /\ wsData[ws].screenId \in DOMAIN screens
             /\ sent'[i].to = screens[wsData[ws].screenId]
             /\ ~IsControllerConn(sent'[i].to)]_vars

\* C8 (screen precondition), as the code has it: register-controller for a
\* screen id with no screen session is refused with Screen not found, nothing
\* changed, when the orchestrator is idle; when it is launching, running or
\* stopping the registration passes the screen check, and is then accepted
\* with a session and a slot unless it requests a slot in 0..3 that another
\* controller id holds on that screen id, which is refused as a slot conflict.
C8_ScreenPrecondition ==
  [][\A ws \in NativeRegConns, controllerId \in CtrlIds, screenId \in RegScreenIds,
        r \in NativeRegRequests :
       (screenId \notin DOMAIN screens /\ RegisterController(ws, controllerId, screenId, r))
       => IF state = "idle"
            THEN /\ sent' = <<Msg(ws, "error", NoId, NoReq, <<>>, "Screen not found")>>
                 /\ UNCHANGED <<screens, controllers, wsData>>
            ELSE IF r \in 0..(MaxPlayers - 1) /\ HeldByOther(controllerId, screenId, r)
              THEN sent' = <<Msg(ws, "error", NoId, r + 1, <<>>, "player-slot-taken")>>
              ELSE /\ Accepted(ws, controllerId)
                   /\ controllerId \in DOMAIN controllers'
                   /\ controllers'[controllerId].ws = ws
                   /\ controllers'[controllerId].screenId = screenId
                   /\ controllers'[controllerId].playerNum = sent'[1].num
                   /\ sent'[1].num >= 0]_vars

\* A controller was accepted while no screen was registered: it got
\* registered and the native state, and no screen got controller-connected.
C8_Witness ==
  /\ Len(sent) >= 2
  /\ sent[1].type = "registered"
  /\ sent[Len(sent)].type = "nativeState"
  /\ \A i \in 1..Len(sent) : sent[i].type # "controller-connected"
  /\ screens = EmptyMap

\* C8 as stated: register-controller for a screen id with no screen session is
\* refused with Screen not found when the orchestrator is idle and accepted,
\* with a session created, when it is launching, running or stopping.
C8_ScreenPreconditionAsStated ==
  [][\A ws \in NativeRegConns, controllerId \in CtrlIds, screenId \in RegScreenIds,
        r \in NativeRegRequests :
       (screenId \notin DOMAIN screens /\ RegisterController(ws, controllerId, screenId, r))
       => IF state = "idle"
            THEN sent' = <<Msg(ws, "error", NoId, NoReq, <<>>, "Screen not found")>>
            ELSE /\ Accepted(ws, controllerId)
                 /\ controllerId \in DOMAIN controllers'
                 /\ controllers'[controllerId].ws = ws]_vars

\* --------------------------------------------- claims about the router
\* The step is the handling of a message from ws whose type is none of
\* register-screen, register-controller, heartbeat.
OtherMessage(ws) ==
  \/ GetNativeState(ws)
  \/ Forwards(ws)
  \/ \E system \in Systems, rom \in Roms, ex \in ExtractOutcomes \cup {"skip"},
        st \in StopOutcomes \cup {"skip"} : launchNative(ws, system, rom, ex, st)
  \/ \E kill \in KillOutcomes \cup {"skip"} : quitNative(ws, kill)

\* C11 (messages from an unassigned connection): a message of any type but
\* register-screen, register-controller and heartbeat from a connection with
\* no role sends nothing and changes neither the registry nor the
\* orchestrator state.
C11_UnassignedDropped ==
  [][\A ws \in Conns :
       (wsData[ws].type = "none" /\ OtherMessage(ws))
       => /\ sent' = <<>>
          /\ UNCHANGED <<screens, controllers, wsData, state, currentCore, currentRom>>]_vars

\* C12 (offer ownership): a webrtc-offer is forwarded only when the sender
\* is the connection the registry holds for the controller id it carries,
\* and then to that session's screen, tagged with that controller id.
C12_OfferOwnership ==
  [][\A ws \in Conns :
       (WebrtcOffer(ws) /\ sent' # <<>>)
       => LET id == wsData[ws].id IN
          /\ wsData[ws].type = "controller"
          /\ id \in DOMAIN controllers
          /\ controllers[id].ws = ws
          /\ controllers[id].screenId \in DOMAIN screens
          /\ sent' = <<Msg(screens[controllers[id].screenId], "webrtc-offer", id, NoReq,
                           <<>>, "")>>]_vars

\* C13 (answer and candidate ownership): a webrtc-answer, or an ice-candidate
\* of a screen, is delivered to the controller named in its to field only
\* when the sender is the connection registered for a screen and that
\* controller's session is on the sender's screen id.
C13_AnswerOwnership ==
  [][\A ws \in Conns, to \in CtrlIds :
       ( /\ WebrtcAnswer(ws, to) \/ (wsData[ws].type = "screen" /\ IceCandidate(ws, to))
         /\ sent' # <<>> )
       => /\ wsData[ws].type = "screen"
          /\ wsData[ws].id \in DOMAIN screens
          /\ screens[wsData[ws].id] = ws
          /\ to \in DOMAIN controllers
          /\ controllers[to].screenId = wsData[ws].id]_vars

\* C14 (signaling failures are reported): a webrtc-offer, webrtc-answer or
\* ice-candidate that is not forwarded is answered with an error reply to
\* its sender.
C14_SignalingErrorReply ==
  [][\A ws \in Conns, to \in CtrlIds \cup {NoId} :
       ( /\ WebrtcOffer(ws) \/ WebrtcAnswer(ws, to) \/ IceCandidate(ws, to)
         /\ \A i \in 1..Len(sent') :
               sent'[i].type \notin {"webrtc-offer", "webrtc-answer", "ice-candidate"} )
       => \E i \in 1..Len(sent') : sent'[i].to = ws /\ sent'[i].type = "error"]_vars

ControllerConnsOf(screenId) ==
  {controllers[k].ws : k \in {x \in DOMAIN controllers : controllers[x].screenId = screenId}}

\* C16 (screen fan-out): a generic message of a screen goes to exactly the
\* named controller when targetController is registered to this screen, and
\* otherwise to exactly the controllers whose session is on this screen's id.
C16_ScreenFanOut ==
  [][\A ws \in Conns, targetController \in CtrlIds \cup {NoId}, simulate \in BOOLEAN,
        supplied \in SuppliedValues :
       (wsData[ws].type = "screen" /\ Generic(ws, targetController, simulate, supplied))
       => {sent'[i].to : i \in 1..Len(sent')} =
            IF /\ targetController \in DOMAIN controllers
               /\ controllers[targetController].screenId = wsData[ws].id
              THEN {controllers[targetController].ws}
              ELSE ControllerConnsOf(wsData[ws].id)]_vars

\* --------------------------------------- claims about the orchestrator
\* C17 (orchestrator transitions): the state changes only along idle to
\* launching, launching to running, running to stopping, stopping to idle.
C17_Transitions ==
  [][state' # state
     => <<state, state'>> \in {<<"idle", "launching">>, <<"launching", "running">>,
                               <<"running", "stopping">>, <<"stopping", "idle">>}]_vars

\* C18 (exit notification exactly once): once the process of a launch has
\* exited, or its spawn has failed, the exit callback recorded for that launch
\* has been invoked exactly once and is no longer referenced.
C18_ExitNotifiedOnce ==
  \A l \in LaunchIds :
     lpc[l] \in {"exited", "errored"} => (calls[l] = 1 /\ exitCallback # l)

\* C19 (idle clears the handles): when the state is idle the process handle
\* and the exit callback are both null.
C19_IdleClearsHandles == state = "idle" => (cageProcess = 0 /\ exitCallback = 0)

\* C20 (quit protocol): quitNative in a state other than running returns
\* ok:false and changes nothing; in state running it sets the state to
\* stopping; and a step from stopping to idle is the process exit handler.
C20_QuitProtocol ==
  [][/\ \A caller \in NativeCallers, kill \in KillOutcomes \cup {"skip"} :
          quitNative(caller, kill)
          => IF state = "running"
               THEN state' = "stopping"
               ELSE /\ result' = "cannot-quit"
                    /\ UNCHANGED <<state, cageProcess, currentCore, currentRom, exitCallback,
                                   extractedDir, scratch, kioskOverride, kioskActive, lpc>>
     /\ (state = "stopping" /\ state' = "idle")
        => \E l \in LaunchIds, how \in ExitKinds : procExit(l, how)]_vars

\* C21 (display ownership before spawn): a launch reaches its settle delay
\* only in a step that stopped the display service, the process handle of a
\* launch is set only by a spawn that follows that launch's settle delay, and
\* a launch whose display-service stop fails returns ok:false with the state
\* idle again and spawns nothing.
C21_DisplayOwnership ==
  [][/\ \A l \in LaunchIds :
          (lpc[l] = "unused" /\ lpc'[l] = "settle")
          => (state' = "launching" /\ kioskOverride' /\ ~kioskActive')
     /\ \A l \in LaunchIds : (cageProcess' = l /\ cageProcess # l) => lpc[l] = "settle"
     /\ state = "idle"
        => \A i \in LaunchInputs :
             ( /\ i.st \in StopOutcomes \ {"ok"}
               /\ launchNative(i.caller, i.system, i.rom, i.ex, i.st) )
             => /\ result' = "kiosk-stop-failed"
                /\ state' = "idle"
                /\ cageProcess' = cageProcess
                /\ \A l \in LaunchIds : lpc[l] = "unused" => lpc'[l] \in {"unused", "failed"}]_vars

\* A launch was refused because the display service could not be stopped:
\* the state is idle again and no process handle was set.
C21_Witness ==
  /\ result = "kiosk-stop-failed"
  /\ state = "idle"
  /\ cageProcess = 0
  /\ \E l \in LaunchIds : lpc[l] = "failed"

\* ------------------------- claims about the router and the orchestrator
\* Connections the registry holds: of every screen and of every controller.
RegistryConns(scr, ctl) ==
  {scr[x] : x \in DOMAIN scr} \cup {ctl[k].ws : k \in DOMAIN ctl}

\* Every connection in the registry was sent nativeState with the new state.
StatusBroadcast ==
  \A c \in RegistryConns(screens', controllers') :
     \E i \in 1..Len(sent') : sent'[i] = Msg(c, "nativeState", NoId, NoReq, <<>>, state')

\* C22 (status broadcast): a launchNative or quitNative message that
\* succeeds is answered to its sender with ok:true, and nativeState with the
\* new state is sent to every screen and every controller in the registry.
C22_StatusBroadcast ==
  [][/\ \A l \in LaunchIds, outcome \in SpawnOutcomes :
          (lcaller[l] # 0 /\ launchSpawn(l, outcome) /\ result' = "ok")
          => /\ \E i \in 1..Len(sent') :
                   sent'[i] = Msg(lcaller[l], "nativeLaunchResult", NoId, 1, <<>>, "")
             /\ StatusBroadcast
     /\ \A ws \in Conns, kill \in KillOutcomes :
          (quitNative(ws, kill) /\ result' = "quit-ok")
          => /\ \E i \in 1..Len(sent') :
                   sent'[i] = Msg(ws, "nativeQuitResult", NoId, 1, <<>>, "")
             /\ StatusBroadcast]_vars

\* nativeExit was sent to every connection the registry holds.
ExitBroadcast ==
  \A c \in RegistryConns(screens, controllers) :
     \E i \in 1..Len(sent') : sent'[i].to = c /\ sent'[i].type = "nativeExit"

\* C23 (exit broadcast): when the process of a launch requested by a
\* connection ends (it exits, or its spawn fails after the launch was
\* reported successful), nativeExit is sent to every screen and every
\* controller that is in the registry at that moment, and for an exit it
\* carries the exit code and signal.
C23_ExitBroadcast ==
  [][\A l \in LaunchIds :
       lcaller[l] # 0
       => /\ \A how \in ExitKinds :
               (lpc[l] = "alive" /\ procExit(l, how))
               => /\ ExitBroadcast
                  /\ \A i \in 1..Len(sent') :
                        /\ sent'[i].num = IF how = "code0" THEN 0 ELSE NoReq
                        /\ sent'[i].text = IF how = "code0" THEN "" ELSE "SIGTERM"
          /\ procError(l) => ExitBroadcast]_vars

\* ------------------------------------- claims about session removal
\* The slots of the controllers of screenId, in Map iteration order.
PlayersOf(ctl, screenId) ==
  LET ids == ControllersOf(ctl, screenId)
  IN  [i \in 1..Len(ids) |-> ctl[ids[i]].playerNum]

\* C24 (controller removal): in a step that removes a controller session
\* from the registry, that session's screen, when the registry holds a
\* connection for it, is sent controller-disconnected with the controller's
\* id and slot, and every remaining controller of that screen is sent the
\* playerList of the registry after the removal, in which the removed slot
\* does not occur.
C24_ControllerRemoval ==
  [][\A k \in DOMAIN controllers :
       k \notin DOMAIN controllers'
       => LET screenId == controllers[k].screenId
              players == PlayersOf(controllers', screenId)
          IN  /\ screenId \in DOMAIN screens
                 => \E i \in 1..Len(sent') :
                       sent'[i] = Msg(screens[screenId], "controller-disconnected", k,
                                      controllers[k].playerNum, <<>>, "")
              /\ \A j \in DOMAIN controllers' :
                    controllers'[j].screenId = screenId
                    => \E i \in 1..Len(sent') :
                          sent'[i] = Msg(controllers'[j].ws, "playerList", NoId, NoReq,
                                         players, "")
              /\ \A i \in 1..Len(players) : players[i] # controllers[k].playerNum]_vars

\* C25 (screen removal): in a step that removes a screen id from the
\* registry, every controller whose session is on that screen id is sent
\* screen-disconnected, the controller sessions are left as they were, and
\* screen-disconnected goes to no connection without a session on that id.
C25_ScreenRemoval ==
  [][\A screenId \in DOMAIN screens :
       screenId \notin DOMAIN screens'
       => /\ \A k \in DOMAIN controllers :
               controllers[k].screenId = screenId
               => \E i \in 1..Len(sent') :
                     sent'[i] = Msg(controllers[k].ws, "screen-disconnected", NoId, NoReq,
                                    <<>>, "")
          /\ controllers' = controllers
          /\ \A i \in 1..Len(sent') :
               sent'[i].type = "screen-disconnected"
               => sent'[i].to \in ControllerConnsOf(screenId)]_vars

\* A screen was removed while controllers of two screens were registered:
\* only the controller of the removed screen was notified, and its session
\* is still in the registry.
C25_Witness ==
  /\ Len(sent) = 1
  /\ sent[1].type = "screen-disconnected"
  /\ \E k \in DOMAIN controllers, j \in DOMAIN controllers :
       /\ controllers[k].ws = sent[1].to
       /\ controllers[k].screenId \notin DOMAIN screens
       /\ controllers[j].screenId # controllers[k].screenId
       /\ controllers[j].ws # sent[1].to

\* C26 (per-screen ordering): the handler of an accepted register-controller
\* sends, in this order, registered to the sender, controller-connected for
\* the registering controller (and for no other) to the screen, and then to
\* every controller of the screen the playerList of the registry as it is
\* after this registration; so what the screen and the controllers are sent
\* follows the order in which registrations are processed.
C26_PerScreenOrdering ==
  [][\A ws \in CtrlConns, controllerId \in CtrlIds, screenId \in RegScreenIds,
        r \in RequestValues :
       (RegisterController(ws, controllerId, screenId, r) /\ Accepted(ws, controllerId))
       => LET players == PlayersOf(controllers', screenId) IN
          /\ \A i \in 2..Len(sent') : sent'[i].type # "registered"
          /\ screenId \in DOMAIN screens
             => sent'[2] = Msg(screens[screenId], "controller-connected", controllerId,
                               controllers'[controllerId].playerNum, <<>>, "")
          /\ \A i \in 1..Len(sent') : sent'[i].type = "controller-connected" => i = 2
          /\ \A j \in DOMAIN controllers' :
               controllers'[j].screenId = screenId
               => \E i \in 2..Len(sent') :
                     sent'[i] = Msg(controllers'[j].ws, "playerList", NoId, NoReq, players, "")
          /\ \A i \in 1..Len(sent') :
               sent'[i].type = "playerList"
               => /\ i > (IF screenId \in DOMAIN screens THEN 2 ELSE 1)
                  /\ sent'[i].players = players
                  /\ \E n \in 1..Len(players) :
                        players[n] = controllers'[controllerId].playerNum]_vars

\* A second controller registered on a screen: it was sent registered, the
\* screen controller-connected, and both controllers the list of both slots.
C26_Witness ==
  /\ Len(sent) = 4
  /\ sent[1].type = "registered"
  /\ sent[2].type = "controller-connected" /\ sent[2].id = sent[1].id
  /\ sent[3].type = "playerList" /\ sent[4].type = "playerList"
  /\ sent[3].to # sent[4].to
  /\ sent[3].players = <<0, 1>> /\ sent[4].players = <<0, 1>>

\* ------------------------------ further claims about the orchestrator
\* C27 (launch precondition failures): launchNative called in state idle with
\* a system id that has no core, or with a content path that does not exist,
\* returns ok:false with the matching error, and leaves the state idle, core
\* and rom null, the display service, the scratch directories, the process
\* handle and the launches as they were.
C27_PreconditionFailures ==
  [][state = "idle"
     => \A i \in LaunchInputs :
          ( /\ i.system = "nosuch" \/ i.rom = "missing"
            /\ launchNative(i.caller, i.system, i.rom, i.ex, i.st) )
          => /\ result' = IF i.system = "nosuch" THEN "core-not-found" ELSE "rom-not-found"
             /\ sent' = launchReply(i.caller, FALSE)
             /\ state' = "idle" /\ currentCore' = "" /\ currentRom' = ""
             /\ UNCHANGED <<kioskOverride, kioskActive, extractedDir, scratch,
                            cageProcess, lpc, exitCallback>>]_vars

\* A launch was refused for a missing core or content file after another
\* launch had run: the orchestrator is idle, nothing is held.
C27_Witness ==
  /\ result \in {"core-not-found", "rom-not-found"}
  /\ state = "idle" /\ currentCore = "" /\ currentRom = ""
  /\ cageProcess = 0 /\ scratch = {}
  /\ ~kioskOverride /\ kioskActive
  /\ \E l \in LaunchIds : lpc[l] = "exited"

\* ------------------------------------------ claims about slot allocation
\* The slot values held on screenId.
HeldSlots(screenId) ==
  {controllers[k].playerNum : k \in {x \in DOMAIN controllers : controllers[x].screenId = screenId}}

\* The reference rule for the slot of an accepted registration.
ReferenceSlot(controllerId, screenId, r) ==
  IF r \in 0..(MaxPlayers - 1) /\ ~HeldByOther(controllerId, screenId, r)
    THEN r
    ELSE IF controllerId \in DOMAIN controllers /\ controllers[controllerId].screenId = screenId
      THEN controllers[controllerId].playerNum
      ELSE IF (0..(MaxPlayers - 1)) \ HeldSlots(screenId) # {}
        THEN Min((0..(MaxPlayers - 1)) \ HeldSlots(screenId))
        ELSE Cardinality(HeldSlots(screenId))

\* C28 (slot allocation result): the slot an accepted register-controller
\* records and reports equals the reference rule (requested slot if free of
\* other holders, else the id's previous slot on the screen, else the lowest
\* free slot in 0..3, else the number of distinct held values); the first
\* controller on an empty screen gets 0 and the next one gets 1.
C28_SlotAllocation ==
  [][(Len(sent') >= 1 /\ sent'[1].type = "registered" /\ sent'[1].id \in DOMAIN controllers')
     => LET ws == sent'[1].to
            controllerId == sent'[1].id
            screenId == Min(RegScreenIds)
        IN  \A r \in AllocRequests :
              RegisterController(ws, controllerId, screenId, r)
              => /\ controllers'[controllerId].playerNum = ReferenceSlot(controllerId, screenId, r)
                 /\ sent'[1].num = ReferenceSlot(controllerId, screenId, r)
                 /\ (r = NoReq /\ HeldSlots(screenId) = {}) => sent'[1].num = 0
                 /\ (r = NoReq /\ HeldSlots(screenId) = {0} /\ controllerId \notin DOMAIN controllers)
                    => sent'[1].num = 1]_vars

\* A registration was accepted with an overflow slot while 0..3 were all
\* held, one of them by a controller that had requested it.
C28_Witness ==
  /\ Len(sent) >= 1 /\ sent[1].type = "registered"
  /\ sent[1].id \in DOMAIN controllers
  /\ sent[1].num = MaxPlayers
  /\ controllers[sent[1].id].playerNum = MaxPlayers
  /\ \E k \in DOMAIN controllers :
       /\ controllers[k].playerNum = MaxRequested
       /\ \A j \in DOMAIN controllers : j < k => controllers[j].playerNum > MaxRequested

\* C29 (quit completion): with every running process terminating at some
\* time, an accepted quit (state stopping) is followed by state idle, and the
\* state goes from stopping to idle only in the step in which the process
\* the orchestrator holds exits; every accepted launch is followed by state
\* idle; and a launch called in state idle is not refused for the state.
C29_QuitCompletion ==
  /\ (state = "stopping") ~> (state = "idle")
  /\ [][(state = "stopping" /\ state' = "idle")
        => /\ cageProcess # 0
           /\ lpc[cageProcess] = "alive"
           /\ lpc'[cageProcess] = "exited"]_vars
  /\ (state \in {"launching", "running"}) ~> (state = "idle")
  /\ [][state = "idle"
        => \A i \in LaunchInputs :
             launchNative(i.caller, i.system, i.rom, i.ex, i.st)
             => result' # "invalid-state"]_vars

\* ------------------------------------------ claims about stale closes
\* C30 (stale screen close): when the close event of a connection tagged
\* screen is processed after another connection has replaced it in the
\* registry under its screen id, the registry keeps that mapping and no
\* screen-disconnected is sent.
C30_StaleScreenClose ==
  [][\A c1 \in Conns :
       ( /\ wsData[c1].type = "screen"
         /\ wsData[c1].id \in DOMAIN screens
         /\ screens[wsData[c1].id] # c1
         /\ Close(c1) )
       => /\ screens' = screens
          /\ \A i \in 1..Len(sent') : sent'[i].type # "screen-disconnected"]_vars

\* C31 (stale controller close): when the close event of a connection tagged
\* controller is processed after its controller id has registered again on
\* another connection, the session of the new connection stays in the
\* registry with its slot and no controller-disconnected is sent.
C31_StaleControllerClose ==
  [][\A c1 \in Conns :
       ( /\ wsData[c1].type = "controller"
         /\ wsData[c1].id \in DOMAIN controllers
         /\ controllers[wsData[c1].id].ws # c1
         /\ Close(c1) )
       => /\ controllers' = controllers
          /\ \A i \in 1..Len(sent') : sent'[i].type # "controller-disconnected"]_vars

\* C32 (no dangling sessions): no screen session and no controller session
\* in the registry references a connection whose close event has been
\* processed.
C32_NoDanglingSessions ==
  \A c \in Conns :
     connState[c] = "closed" => c \notin RegistryConns(screens, controllers)

\* --------------------------- claims about launches and their processes
\* The launches whose process is running.
AliveLaunches == {l \in LaunchIds : lpc[l] = "alive"}

\* C33 (single native process): at most one process spawned by the
\* orchestrator is alive, and one is alive only while the state is running
\* or stopping.
C33_SingleProcess ==
  /\ Cardinality(AliveLaunches) <= 1
  /\ AliveLaunches # {} => state \in {"running", "stopping"}

\* A launch is past its display-service stop and not yet over.
PastStop(l) == lpc[l] \in {"settle", "spawnfail", "alive"}

\* C34 (no display contention): while a native process is alive, or a launch
\* is past its display-service stop, the display service is stopped with its
\* override installed; and a step that restarts the display service leaves
\* no process alive and no launch between its stop and the end of its process.
C34_NoDisplayContention ==
  /\ []((\E l \in LaunchIds : PastStop(l)) => (kioskOverride /\ ~kioskActive))
  /\ [][(kioskActive' /\ ~kioskActive) => \A l \in LaunchIds : ~PastStop(l)']_vars

\* C35 (failed quit leaves the state unchanged): a quitNative call in state
\* running whose kill commands both fail returns ok:false and leaves the
\* state running.
C35_FailedQuit ==
  [][\A caller \in NativeCallers :
       (state = "running" /\ quitNative(caller, "fail"))
       => (result' = "kill-failed" /\ state' = "running")]_vars

\* ------------------------------------- claims about the player list
\* How many sessions of screenId hold each slot value (the multiset of slots).
SlotCount(ctl, screenId) ==
  [v \in 0..NumSlotCtrlIds |->
     Cardinality({k \in DOMAIN ctl : ctl[k].screenId = screenId /\ ctl[k].playerNum = v})]

\* The multiset of the values of a playerList message.
ListCount(players) ==
  [v \in 0..NumSlotCtrlIds |-> Cardinality({n \in 1..Len(players) : players[n] = v})]

\* C36 (player-list consistency): a handler that changes the multiset of
\* slots registered to a screen id sends every controller session of that
\* screen a playerList equal to the new multiset, so the last list each
\* controller was sent is the current one.
C36_PlayerListConsistency ==
  [][\A screenId \in ScreenIds :
       SlotCount(controllers', screenId) # SlotCount(controllers, screenId)
       => \A j \in DOMAIN controllers' :
             controllers'[j].screenId = screenId
             => \E i \in 1..Len(sent') :
                   /\ sent'[i].to = controllers'[j].ws
                   /\ sent'[i].type = "playerList"
                   /\ ListCount(sent'[i].players) = SlotCount(controllers', screenId)]_vars

\* C37 (handlers are bound to their launch): an exit or error event of the
\* process of a launch, delivered while a later launch is between its
\* display-service stop and the end of its process, leaves the state, core,
\* rom, scratch directories and display service as they are and does not
\* invoke or clear the exit callback of the later launch.
C37_HandlersBound ==
  [][\A l \in LaunchIds, m \in LaunchIds :
       ( /\ l < m
         /\ PastStop(m)
         /\ procError(l) \/ \E how \in ExitKinds : procExit(l, how) )
       => UNCHANGED <<state, currentCore, currentRom, extractedDir, scratch,
                      kioskOverride, kioskActive, exitCallback, calls>>]_vars

\* ------------------------------------ claims about rejected messages
\* The error a register-controller is to be refused with ("" = none).
RejectionOf(controllerId, screenId, r) ==
  IF controllerId = NoId \/ screenId = NoId THEN "Missing controllerId or screenId"
  ELSE IF screenId \notin DOMAIN screens /\ state = "idle" THEN "Screen not found"
  ELSE IF r \in 0..(MaxPlayers - 1) /\ HeldByOther(controllerId, screenId, r)
    THEN "player-slot-taken"
    ELSE ""

\* C38 (rejected registration changes nothing): a register-controller with a
\* missing id, for a screen that is not registered while the orchestrator is
\* idle, or requesting a slot another controller holds, leaves the screens
\* map, the controllers map and every connection's tags unchanged and sends
\* one message only, the error reply to the sender.
C38_RejectionChangesNothing ==
  [][\A ws \in CtrlConns, controllerId \in CtrlIds \cup {NoId},
        screenId \in RegScreenIds \cup {NoId}, r \in RequestValues :
       ( /\ RejectionOf(controllerId, screenId, r) # ""
         /\ RegisterController(ws, controllerId, screenId, r) )
       => /\ UNCHANGED <<screens, controllers, wsData>>
          /\ Len(sent') = 1
          /\ sent'[1].to = ws
          /\ sent'[1].type = "error"
          /\ sent'[1].text = RejectionOf(controllerId, screenId, r)]_vars

\* A connection that is registered as a controller was refused with Screen
\* not found after its screen had gone: its tags and session are as before.
C38_Witness ==
  /\ Len(sent) = 1
  /\ sent[1].type = "error" /\ sent[1].text = "Screen not found"
  /\ wsData[sent[1].to].type = "controller"
  /\ wsData[sent[1].to].id \in DOMAIN controllers
  /\ controllers[wsData[sent[1].to].id].ws = sent[1].to

\* C39 (superseded connections cannot route): a generic message is forwarded
\* only when its sender is the connection the registry holds for the sender's
\* controller id, or for the sender's screen id.
C39_SupersededCannotRoute ==
  [][\A ws \in Conns :
       ( /\ sent' # <<>>
         /\ \E targetController \in CtrlIds \cup {NoId}, simulate \in BOOLEAN,
               supplied \in SuppliedValues :
              Generic(ws, targetController, simulate, supplied) )
       => IF wsData[ws].type = "controller"
            THEN /\ wsData[ws].id \in DOMAIN controllers
                 /\ controllers[wsData[ws].id].ws = ws
            ELSE /\ wsData[ws].type = "screen"
                 /\ wsData[ws].id \in DOMAIN screens
                 /\ screens[wsData[ws].id] = ws]_vars

\* C40: after disconnect() and until the application calls connect() again,
\* no step of the manager creates a socket or sends a heartbeat; and the
\* close event of a socket that disconnect() closed schedules no reconnect.
C40_DisconnectStops ==
  /\ [][(disconnected /\ disconnected') =>
          /\ \A s \in SocketIds : readyState[s] = "unused" => readyState'[s] = "unused"
          /\ clientSent' = 0]_vars
  /\ [][\A s \in SocketIds :
          (requested[s] /\ onclose(s)) => reconnectTimers' = reconnectTimers]_vars

====
